---- MODULE Spec2Model ----
(***************************************************************************)
(* The interaction engine (like / reject / match) and the chat thread      *)
(* manager of the dating-app backend, as state machines over the rows of   *)
(* pb_user_interactions, pb_chats, pb_messages and the users' counters.    *)
(*                                                                         *)
(*   Spec        the routed controller, one request at a time              *)
(*               (controllers/user/matchingController.js, chatController)  *)
(*   SpecBotOnly the bot-only copy of the matching controller              *)
(*               (unnamed/part_003)                                        *)
(*   SpecConc    likeUser requests as interleaved transactions             *)
(*   SpecSend    the chat routes, one request at a time; SpecSendFair     *)
(*               adds a reply generator that always returns or throws      *)
(*   SpecChat    sendMessage requests as interleaved transactions, with    *)
(*               the block and delete-message routes                       *)
(*   SpecPages   sendMessage transactions and a client reading pages by    *)
(*               cursor                                                    *)
(***************************************************************************)
EXTENDS Integers, Sequences, FiniteSets, TLC

VARIABLES
    interactions,   \* pb_user_interactions: sequence of rows, row id = index
    users,          \* the counters on each User row
    chats,          \* pb_chats: sequence of rows, row id = index
    messages,       \* pb_messages: sequence of rows, row id = index
    pending,        \* sendMessage handlers that committed and await the bot reply
    res,            \* the response of the request handled last
    calls,          \* number of requests accepted so far
    tx,             \* the requests in flight as transactions (SpecConc, SpecChat)
    session         \* a client reading one chat page after page (SpecChat)

vars == <<interactions, users, chats, messages, pending, res, calls, tx,
          session>>
store == <<interactions, users, chats, messages>>

----------------------------------------------------------------------------
(* Bounds of the model *)

\* requests issued in one behaviour
MaxCalls == 3
\* sendMessage handlers waiting for the reply generator at one time
MaxPending == 1
\* likeUser transactions in flight at one time (SpecConc)
MaxTx == 2

----------------------------------------------------------------------------
(* The users: 1 is an automated persona, 2 and 3 are real users; id 4 is   *)
(* no row of the User table.  Every user row is active.                    *)

Users == {1, 2, 3}
Bots == {1}
Humans == Users \ Bots
UserIds == Users \cup {4}
UserType(u) == IF u \in Bots THEN "bot" ELSE "real"

Min(a, b) == IF a < b THEN a ELSE b
Max(a, b) == IF a < b THEN b ELSE a
\* SQL GREATEST(a, b)
GREATEST(a, b) == Max(a, b)

\* No row / SQL NULL for an id column
Null == 0

\* Model.findOne({where}): one of the rows that satisfy the condition, in no
\* stated order (the query has no ORDER BY); Null when there is none.
FindOne(rows) == IF rows = {} THEN {Null} ELSE rows

\* the ids of the interaction rows of the ordered pair (u, t)
InteractionRows(tbl, u, t) ==
    {i \in DOMAIN tbl : tbl[i].user_id = u /\ tbl[i].target_user_id = t}

ActionOf(tbl, i) == IF i = Null THEN "none" ELSE tbl[i].action

Interaction(u, t, a, m) ==
    [user_id |-> u, target_user_id |-> t, action |-> a, is_mutual |-> m]

\* existing.update(...) when the row was found, UserInteraction.create(...) otherwise
UpdateOrCreate(tbl, i, u, t, a, m) ==
    IF i # Null
    THEN [tbl EXCEPT ![i].action = a, ![i].is_mutual = m]
    ELSE Append(tbl, Interaction(u, t, a, m))

\* UserInteraction.upsert(...): the table has no unique key on
\* (user_id, target_user_id) and the values carry no id, so the statement
\* INSERT ... ON DUPLICATE KEY UPDATE meets no duplicate and inserts a row.
Upsert(tbl, u, t, a, m) == Append(tbl, Interaction(u, t, a, m))

----------------------------------------------------------------------------
(* Responses *)

NoResponse == 0
Response(op, status, isMatch, chatId) ==
    [op |-> op, status |-> status, is_match |-> isMatch, chat_id |-> chatId,
     is_new_match |-> FALSE, user_message |-> Null, bot_message |-> Null,
     repeated |-> FALSE, page |-> << >>]

----------------------------------------------------------------------------
(* Chat provisioning *)

NewChat(p1, p2) ==
    [participant_1_id |-> p1, participant_2_id |-> p2,
     last_message_id |-> Null,
     unread_count_p1 |-> 0, unread_count_p2 |-> 0,
     is_archived_p1 |-> FALSE, is_archived_p2 |-> FALSE,
     chat_status_p1 |-> "active", chat_status_p2 |-> "active"]

\* the rows getOrCreateChatBetweenUsers looks among: participant_1_id = the
\* smaller id and participant_2_id = the larger one
CanonicalChatRows(tbl, a, b) ==
    {c \in DOMAIN tbl : /\ tbl[c].participant_1_id = Min(a, b)
                        /\ tbl[c].participant_2_id = Max(a, b)}

\* getOrCreateChatBetweenUsers(userIdA, userIdB): found is the row findOne
\* returned (Null: none).  The result is the table and the id of the chat.
getOrCreateChatBetweenUsers(tbl, a, b, found) ==
    IF found # Null
    THEN [chats |-> tbl, id |-> found]
    ELSE [chats |-> Append(tbl, NewChat(Min(a, b), Max(a, b))),
          id |-> Len(tbl) + 1]

\* the rows of the unordered pair {a, b}, in either order of the columns
PairChatRows(tbl, a, b) ==
    {c \in DOMAIN tbl :
        \/ tbl[c].participant_1_id = a /\ tbl[c].participant_2_id = b
        \/ tbl[c].participant_1_id = b /\ tbl[c].participant_2_id = a}

----------------------------------------------------------------------------
(* Counters *)

AddLikes(u, who, n) == [u EXCEPT ![who].total_likes = @ + n]
AddRejects(u, who, n) == [u EXCEPT ![who].total_rejects = @ + n]
AddMatches(u, who, n) == [u EXCEPT ![who].total_matches = @ + n]
\* GREATEST(column - 1, 0)
DecLikesClamped(u, who) ==
    [u EXCEPT ![who].total_likes = GREATEST(@ - 1, 0)]
DecRejectsClamped(u, who) ==
    [u EXCEPT ![who].total_rejects = GREATEST(@ - 1, 0)]
DecMatchesClamped(u, who) ==
    [u EXCEPT ![who].total_matches = GREATEST(@ - 1, 0)]

----------------------------------------------------------------------------
(* A request in flight as a database transaction: which handler it is and  *)
(* where it stands, what its reads returned, the locks it holds, and what  *)
(* it answered.                                                            *)

TxIds == 1..MaxTx
\* the isolation level of the connection; config/db sets none in the files
\* at hand, so either the server's default or a configured one
Isolations == {"REPEATABLE READ", "READ COMMITTED"}
IdleTx ==
    [pc |-> "idle", op |-> "none", isolation |-> "REPEATABLE READ",
     userId |-> Null, targetUserId |-> Null,
     existing |-> Null, reverse |-> Null, previousAction |-> "none",
     isMatch |-> FALSE, newlyCreated |-> FALSE,
     snapshot |-> 0, seenRows |-> << >>, found |-> Null,
     rowLocks |-> {}, gapLocks |-> {}, insertLocks |-> {}, userLocks |-> {},
     status |-> NoResponse, chat_id |-> Null,
     chat |-> Null, created |-> FALSE, userMessage |-> Null,
     unread_count_p1 |-> 0, unread_count_p2 |-> 0]

\* no client is reading pages
NoSession ==
    [userId |-> Null, chat_id |-> Null, start |-> Null, cursor |-> Null,
     got |-> << >>]

----------------------------------------------------------------------------
Init ==
    /\ interactions = << >>
    /\ users = [u \in Users |->
                  [total_likes |-> 0, total_matches |-> 0, total_rejects |-> 0]]
    /\ chats = << >>
    /\ messages = << >>
    /\ pending = {}
    /\ res = Response("none", NoResponse, FALSE, Null)
    /\ calls = 0
    /\ tx = [t \in TxIds |-> IdleTx]
    /\ session = NoSession

Accept ==
    /\ calls < MaxCalls
    /\ calls' = calls + 1

Reply(op, status) ==
    /\ res' = Response(op, status, FALSE, Null)
    /\ UNCHANGED <<store, pending, tx, session>>

----------------------------------------------------------------------------
(* controllers/user/matchingController.js: the routed matching controller  *)

\* the match rule of likeUser: a bot matches at once, a human only if the
\* reverse row already records a like
IsMatch(isTargetBot, reverseAction) ==
    LET isHumanMutual == ~isTargetBot /\ reverseAction = "like"
    IN  isTargetBot \/ isHumanMutual

\* the rows likeUser writes: the forward row, and the reverse row on a match
LikeRows(tbl, existing, reverse, userId, targetUserId, isMatch) ==
    LET newAction == IF isMatch THEN "match" ELSE "like"
        forward == UpdateOrCreate(tbl, existing, userId, targetUserId,
                                  newAction, isMatch)
    IN  IF isMatch
        THEN UpdateOrCreate(forward, reverse, targetUserId, userId,
                            "match", TRUE)
        ELSE forward

\* the counters likeUser writes
LikeCounters(u, userId, targetUserId, previousAction, reverseAction, isMatch) ==
    LET isNewMatch ==
            isMatch /\ (previousAction # "match" \/ reverseAction # "match")
        matched == IF isNewMatch
                   THEN AddMatches(AddMatches(u, userId, 1), targetUserId, 1)
                   ELSE u
    IN  IF previousAction = "reject"
        THEN DecRejectsClamped(AddLikes(matched, userId, 1), userId)
        ELSE IF previousAction = "none"
        THEN AddLikes(matched, userId, 1)
        ELSE matched

\* what likeUser answers after the commit.  The object handed to res.json
\* reads the identifier isBot, which the function never declares: building
\* it throws, the catch block rolls back the finished transaction, which
\* throws again, and the handler ends without sending anything.
LikeResponse(isMatch, chatId) ==
    Response("likeUser", NoResponse, FALSE, Null)

likeUser(userId, targetUserId) ==
    /\ Accept
    /\ IF userId = targetUserId
       THEN Reply("likeUser", 400)
       ELSE IF targetUserId \notin Users
       THEN Reply("likeUser", 404)
       ELSE \E existing \in
                FindOne(InteractionRows(interactions, userId, targetUserId)) :
            LET previousAction == ActionOf(interactions, existing) IN
            IF previousAction \in {"like", "match"}
            THEN Reply("likeUser", 400)
            ELSE \E reverse \in
                    FindOne(InteractionRows(interactions, targetUserId, userId)),
                    found \in
                    FindOne(CanonicalChatRows(chats, userId, targetUserId)) :
                 LET reverseAction == ActionOf(interactions, reverse)
                     isTargetBot == UserType(targetUserId) = "bot"
                     isMatch == IsMatch(isTargetBot, reverseAction)
                     chat == getOrCreateChatBetweenUsers(
                                 chats, userId, targetUserId, found)
                 IN  /\ interactions' = LikeRows(interactions, existing, reverse,
                                                 userId, targetUserId, isMatch)
                     /\ users' = LikeCounters(users, userId, targetUserId,
                                              previousAction, reverseAction,
                                              isMatch)
                     /\ chats' = IF isMatch THEN chat.chats ELSE chats
                     /\ res' = LikeResponse(isMatch,
                                            IF isMatch THEN chat.id ELSE Null)
                     /\ UNCHANGED <<messages, pending, tx, session>>

\* the rows rejectUser writes
RejectRows(tbl, existing, reverse, userId, targetUserId) ==
    LET previousAction == ActionOf(tbl, existing)
        reverseAction == ActionOf(tbl, reverse)
        forward == UpdateOrCreate(tbl, existing, userId, targetUserId,
                                  "reject", FALSE)
        wasMatch == previousAction = "match" \/ reverseAction = "match"
        nextReverseAction ==
            IF reverseAction = "match" THEN "reject" ELSE reverseAction
    IN  IF wasMatch /\ reverse # Null
        THEN [forward EXCEPT ![reverse].action = nextReverseAction,
                             ![reverse].is_mutual = FALSE]
        ELSE forward

\* a rejectUser that adds the rejection and leaves total_likes as it was
RejectCountersKeepsLikes(u, userId, targetUserId, previousAction, reverseAction) ==
    AddRejects(u, userId, 1)

\* the counters rejectUser writes
RejectCounters(u, userId, targetUserId, previousAction, reverseAction) ==
    LET wasMatch == previousAction = "match" \/ reverseAction = "match"
        broken == IF wasMatch
                  THEN DecMatchesClamped(DecMatchesClamped(u, userId),
                                         targetUserId)
                  ELSE u
    IN  IF previousAction \in {"like", "match"}
        THEN AddRejects(DecLikesClamped(broken, userId), userId, 1)
        ELSE AddRejects(broken, userId, 1)

rejectUser(userId, targetUserId) ==
    /\ Accept
    /\ IF userId = targetUserId
       THEN Reply("rejectUser", 400)
       ELSE IF targetUserId \notin Users
       THEN Reply("rejectUser", 404)
       ELSE \E existing \in
                FindOne(InteractionRows(interactions, userId, targetUserId)),
               reverse \in
                FindOne(InteractionRows(interactions, targetUserId, userId)) :
            LET previousAction == ActionOf(interactions, existing)
                reverseAction == ActionOf(interactions, reverse)
            IN  IF previousAction = "reject"
                THEN Reply("rejectUser", 200)
                ELSE /\ interactions' = RejectRows(interactions, existing,
                                            reverse, userId, targetUserId)
                     /\ users' = RejectCounters(users, userId, targetUserId,
                                            previousAction, reverseAction)
                     /\ res' = Response("rejectUser", 200, FALSE, Null)
                     /\ UNCHANGED <<chats, messages, pending, tx, session>>

\* The interaction handlers as functions of the store s (interactions, users,
\* chats): the stores a call can leave, one for each choice of its findOne
\* reads.  A call that is refused leaves s.
AfterLikeUser(s, userId, targetUserId) ==
    {LET previousAction == ActionOf(s.interactions, existing)
         reverseAction == ActionOf(s.interactions, reverse)
         isMatch == IsMatch(UserType(targetUserId) = "bot", reverseAction)
         chat == getOrCreateChatBetweenUsers(s.chats, userId, targetUserId,
                                             found)
     IN  IF previousAction \in {"like", "match"}
         THEN s
         ELSE [interactions |-> LikeRows(s.interactions, existing, reverse,
                                         userId, targetUserId, isMatch),
               users |-> LikeCounters(s.users, userId, targetUserId,
                                      previousAction, reverseAction, isMatch),
               chats |-> IF isMatch THEN chat.chats ELSE s.chats] :
        existing \in FindOne(InteractionRows(s.interactions, userId, targetUserId)),
        reverse \in FindOne(InteractionRows(s.interactions, targetUserId, userId)),
        found \in FindOne(CanonicalChatRows(s.chats, userId, targetUserId))}

AfterRejectUser(s, userId, targetUserId) ==
    {LET previousAction == ActionOf(s.interactions, existing)
         reverseAction == ActionOf(s.interactions, reverse)
     IN  IF previousAction = "reject"
         THEN s
         ELSE [interactions |-> RejectRows(s.interactions, existing, reverse,
                                           userId, targetUserId),
               users |-> RejectCounters(s.users, userId, targetUserId,
                                        previousAction, reverseAction),
               chats |-> s.chats] :
        existing \in FindOne(InteractionRows(s.interactions, userId, targetUserId)),
        reverse \in FindOne(InteractionRows(s.interactions, targetUserId, userId))}

\* the rows of the pair (userId, botId) that already record a mutual match
MutualMatchRows(tbl, userId, botId) ==
    {i \in InteractionRows(tbl, userId, botId) :
        tbl[i].action = "match" /\ tbl[i].is_mutual}

\* makeMutualMatch(userId, botId): existing is the row its findOne returned.
\* It increments total_matches of userId alone.
makeMutualMatch(tbl, u, userId, botId, existing) ==
    IF existing # Null
    THEN [interactions |-> tbl, users |-> u, newlyCreated |-> FALSE]
    ELSE [interactions |->
              Upsert(Upsert(tbl, userId, botId, "match", TRUE),
                     botId, userId, "match", TRUE),
          users |-> AddMatches(u, userId, 1),
          newlyCreated |-> TRUE]

\* the like / reject counters matchUser writes before makeMutualMatch:
\* User.increment, with no clamp
MatchCounters(u, userId, previousAction) ==
    IF previousAction \in {"like", "match"}
    THEN u
    ELSE IF previousAction = "reject"
    THEN AddRejects(AddLikes(u, userId, 1), userId, -1)
    ELSE AddLikes(u, userId, 1)

matchUser(userId, targetUserId) ==
    /\ Accept
    /\ IF userId = targetUserId
       THEN Reply("matchUser", 400)
       ELSE IF targetUserId \notin Users
       THEN Reply("matchUser", 404)
       ELSE IF UserType(targetUserId) # "bot"
       THEN Reply("matchUser", 400)
       ELSE \E existingInteraction \in
                FindOne(InteractionRows(interactions, userId, targetUserId)),
               existing \in
                FindOne(MutualMatchRows(interactions, userId, targetUserId)),
               found \in
                FindOne(CanonicalChatRows(chats, userId, targetUserId)) :
            LET previousAction == ActionOf(interactions, existingInteraction)
                made == makeMutualMatch(
                            interactions,
                            MatchCounters(users, userId, previousAction),
                            userId, targetUserId, existing)
                chat == getOrCreateChatBetweenUsers(
                            chats, userId, targetUserId, found)
            IN  /\ interactions' = made.interactions
                /\ users' = made.users
                /\ chats' = IF made.newlyCreated THEN chat.chats ELSE chats
                /\ res' = [Response("matchUser", 200, FALSE, Null)
                             EXCEPT !.is_new_match = made.newlyCreated]
                /\ UNCHANGED <<messages, pending, tx, session>>

----------------------------------------------------------------------------
(* controllers/user/chatController.js *)

\* the text of a request's message: empty, or some text
Texts == {"", "hi"}
\* the text generateBotReplyForChat returns
BotText == "reply"

Message(chatId, senderId, receiverId, text, replyId, senderType) ==
    [chat_id |-> chatId, sender_id |-> senderId, receiver_id |-> receiverId,
     message |-> text, reply_id |-> replyId, sender_type |-> senderType,
     status |-> "sent", is_read |-> FALSE]

\* the chat sendMessage works on when the request names no chat: the row
\* of the pair in either column order, or a new row with the sender first
FindOrCreateChat(tbl, userId, receiverId, found) ==
    IF found # Null
    THEN [chats |-> tbl, id |-> found]
    ELSE [chats |-> Append(tbl, NewChat(userId, receiverId)),
          id |-> Len(tbl) + 1]

\* chat.update(updateData) after the user's message was saved
ChatAfterUserMessage(chat, userId, messageId) ==
    IF chat.participant_1_id = userId
    THEN [chat EXCEPT !.last_message_id = messageId,
                      !.unread_count_p2 = @ + 1]
    ELSE [chat EXCEPT !.last_message_id = messageId,
                      !.unread_count_p1 = @ + 1]

\* the transaction of sendMessage on the chat row id of table tbl: saves the
\* message, updates the chat and commits; then answers, or waits for the
\* bot reply when the receiver is a bot
SaveUserMessage(tbl, id, userId, receiverId, text, replyToMessageId) ==
    LET userMessage == Len(messages) + 1
        chat == ChatAfterUserMessage(tbl[id], userId, userMessage)
    IN  /\ UserType(receiverId) = "bot" => Cardinality(pending) < MaxPending
        /\ messages' = Append(messages,
                           Message(id, userId, receiverId, text,
                                   replyToMessageId, "real"))
        /\ chats' = [tbl EXCEPT ![id] = chat]
        /\ IF UserType(receiverId) = "bot"
           THEN /\ pending' = pending \cup
                        {[chat_id |-> id, userId |-> userId,
                          receiverId |-> receiverId,
                          userMessage |-> userMessage,
                          isSenderP1 |-> chat.participant_1_id = userId,
                          unread_count_p1 |-> chat.unread_count_p1,
                          unread_count_p2 |-> chat.unread_count_p2]}
                /\ UNCHANGED res
           ELSE /\ res' = [Response("sendMessage", 200, FALSE, id)
                             EXCEPT !.user_message = userMessage]
                /\ UNCHANGED pending
        /\ UNCHANGED <<interactions, users, tx, session>>

\* checks that look the replied message up by its id alone
SendInChatAnyReply(tbl, id, userId, receiverId, text, replyToMessageId) ==
    IF tbl[id].participant_1_id # userId /\ tbl[id].participant_2_id # userId
    THEN Reply("sendMessage", 403)
    ELSE IF receiverId \notin Users
    THEN Reply("sendMessage", 404)
    ELSE IF replyToMessageId # Null /\ replyToMessageId \notin DOMAIN messages
    THEN Reply("sendMessage", 400)
    ELSE SaveUserMessage(tbl, id, userId, receiverId, text, replyToMessageId)

\* the checks of sendMessage once the chat is known, then the transaction
SendInChat(tbl, id, userId, receiverId, text, replyToMessageId) ==
    IF tbl[id].participant_1_id # userId /\ tbl[id].participant_2_id # userId
    THEN Reply("sendMessage", 403)
    ELSE IF receiverId \notin Users
    THEN Reply("sendMessage", 404)
    ELSE IF /\ replyToMessageId # Null
            /\ ~(/\ replyToMessageId \in DOMAIN messages
                  /\ messages[replyToMessageId].chat_id = id)
    THEN Reply("sendMessage", 400)
    ELSE SaveUserMessage(tbl, id, userId, receiverId, text, replyToMessageId)

sendMessage(userId, chatId, receiverIdBody, text, replyToMessageId) ==
    /\ Accept
    /\ IF text = ""
       THEN Reply("sendMessage", 400)
       ELSE IF chatId # Null
       THEN IF chatId \notin DOMAIN chats
            THEN Reply("sendMessage", 404)
            ELSE LET chat == chats[chatId]
                     receiverId == IF chat.participant_1_id = userId
                                   THEN chat.participant_2_id
                                   ELSE chat.participant_1_id
                 IN  SendInChat(chats, chatId, userId, receiverId, text,
                                replyToMessageId)
       ELSE IF receiverIdBody = Null
       THEN Reply("sendMessage", 400)
       ELSE IF receiverIdBody = userId
       THEN Reply("sendMessage", 400)
       ELSE \E found \in FindOne(PairChatRows(chats, userId, receiverIdBody)) :
            LET chat == FindOrCreateChat(chats, userId, receiverIdBody, found)
            IN  SendInChat(chat.chats, chat.id, userId, receiverIdBody, text,
                           replyToMessageId)

\* chat.update(botUpdateData): written from the values the handler's chat
\* instance held when its own transaction ended
ChatAfterBotMessage(chat, p, messageId) ==
    IF p.isSenderP1
    THEN [chat EXCEPT !.last_message_id = messageId,
                      !.unread_count_p1 = p.unread_count_p1 + 1]
    ELSE [chat EXCEPT !.last_message_id = messageId,
                      !.unread_count_p2 = p.unread_count_p2 + 1]

\* a bot reply saved over the row of the user's message
botReplyOverwrites(p, replied) ==
    /\ p \in pending
    /\ pending' = pending \ {p}
    /\ IF replied
       THEN /\ messages' = [messages EXCEPT ![p.userMessage] =
                               Message(p.chat_id, p.receiverId, p.userId,
                                       BotText, Null, "bot")]
            /\ chats' = [chats EXCEPT ![p.chat_id] =
                             ChatAfterBotMessage(@, p, p.userMessage)]
            /\ res' = [Response("sendMessage", 200, FALSE, p.chat_id)
                         EXCEPT !.user_message = p.userMessage,
                                !.bot_message = p.userMessage]
       ELSE /\ res' = [Response("sendMessage", 200, FALSE, p.chat_id)
                         EXCEPT !.user_message = p.userMessage]
            /\ UNCHANGED <<chats, messages>>
    /\ UNCHANGED <<interactions, users, calls, tx, session>>

\* a handler that counts a bot message whether or not one was saved
botReplyCountsFailure(p, replied) ==
    /\ p \in pending
    /\ pending' = pending \ {p}
    /\ IF replied
       THEN LET botMessage == Len(messages) + 1 IN
            /\ messages' = Append(messages,
                               Message(p.chat_id, p.receiverId, p.userId,
                                       BotText, p.userMessage, "bot"))
            /\ chats' = [chats EXCEPT ![p.chat_id] =
                             ChatAfterBotMessage(@, p, botMessage)]
            /\ res' = [Response("sendMessage", 200, FALSE, p.chat_id)
                         EXCEPT !.user_message = p.userMessage,
                                !.bot_message = botMessage]
       ELSE /\ res' = [Response("sendMessage", 200, FALSE, p.chat_id)
                         EXCEPT !.user_message = p.userMessage]
            /\ chats' = [chats EXCEPT ![p.chat_id] =
                             ChatAfterBotMessage(@, p, @.last_message_id)]
            /\ UNCHANGED messages
    /\ UNCHANGED <<interactions, users, calls, tx, session>>

\* a handler without the try/catch around the bot reply: the generator's
\* error reaches the outer catch and the request is answered with 500
botReplyRethrows(p, replied) ==
    /\ p \in pending
    /\ pending' = pending \ {p}
    /\ IF replied
       THEN LET botMessage == Len(messages) + 1 IN
            /\ messages' = Append(messages,
                               Message(p.chat_id, p.receiverId, p.userId,
                                       BotText, p.userMessage, "bot"))
            /\ chats' = [chats EXCEPT ![p.chat_id] =
                             ChatAfterBotMessage(@, p, botMessage)]
            /\ res' = [Response("sendMessage", 200, FALSE, p.chat_id)
                         EXCEPT !.user_message = p.userMessage,
                                !.bot_message = botMessage]
       ELSE /\ res' = Response("sendMessage", 500, FALSE, Null)
            /\ UNCHANGED <<chats, messages>>
    /\ UNCHANGED <<interactions, users, calls, tx, session>>

\* the rest of sendMessage to a bot, outside the transaction: the reply
\* generator answers (replied) or throws, and the handler responds
botReply(p, replied) ==
    /\ p \in pending
    /\ pending' = pending \ {p}
    /\ IF replied
       THEN LET botMessage == Len(messages) + 1 IN
            /\ messages' = Append(messages,
                               Message(p.chat_id, p.receiverId, p.userId,
                                       BotText, p.userMessage, "bot"))
            /\ chats' = [chats EXCEPT ![p.chat_id] =
                             ChatAfterBotMessage(@, p, botMessage)]
            /\ res' = [Response("sendMessage", 200, FALSE, p.chat_id)
                         EXCEPT !.user_message = p.userMessage,
                                !.bot_message = botMessage]
       ELSE /\ res' = [Response("sendMessage", 200, FALSE, p.chat_id)
                         EXCEPT !.user_message = p.userMessage]
            /\ UNCHANGED <<chats, messages>>
    /\ UNCHANGED <<interactions, users, calls, tx, session>>

----------------------------------------------------------------------------
(* The routed controllers, one request at a time.  Requests come from the  *)
(* sessions of real users.                                                 *)

\* the sendMessage requests tried: a chat id (a row, or one past the last
\* row) or else a receiver id; a reply id (a row, or one past the last
\* row) or none; an empty text is tried once, since it is refused first
SendRequests ==
    LET Req(c, r, text, m) ==
            [chatId |-> c, receiverId |-> r, message |-> text,
             replyToMessageId |-> m]
    IN  {Req(Null, Null, "", Null)}
        \cup {Req(c, Null, "hi", m) :
                 c \in 1..(Len(chats) + 1), m \in 0..(Len(messages) + 1)}
        \cup {Req(Null, r, "hi", m) :
                 r \in {Null} \cup UserIds, m \in 0..(Len(messages) + 1)}

Next ==
    \/ \E u \in Humans, t \in UserIds : likeUser(u, t)
    \/ \E u \in Humans, t \in UserIds : rejectUser(u, t)
    \/ \E u \in Humans, t \in UserIds : matchUser(u, t)
    \/ \E u \in Humans, q \in SendRequests :
            sendMessage(u, q.chatId, q.receiverId, q.message,
                        q.replyToMessageId)
    \/ \E p \in pending, replied \in BOOLEAN : botReply(p, replied)

Spec == Init /\ [][Next]_vars

\* The store after rejectUser(2, 1); matchUser(2, 1); likeUser(2, 1): the
\* upserts of makeMutualMatch added a second 2 -> 1 row beside the rejected
\* one, and likeUser then turned the rejected row into a match as well.
Rematched ==
    /\ interactions = << Interaction(2, 1, "match", TRUE),
                         Interaction(2, 1, "match", TRUE),
                         Interaction(1, 2, "match", TRUE) >>
    /\ users = [u \in Users |->
                  IF u = 1
                  THEN [total_likes |-> 0, total_matches |-> 1, total_rejects |-> 0]
                  ELSE IF u = 2
                  THEN [total_likes |-> 2, total_matches |-> 2, total_rejects |-> 0]
                  ELSE [total_likes |-> 0, total_matches |-> 0, total_rejects |-> 0]]
    /\ chats = << NewChat(1, 2) >>
    /\ messages = << >>
    /\ pending = {}

\* the same routes, entered when the store is already Rematched
InitRematched ==
    /\ Rematched
    /\ res = Response("none", NoResponse, FALSE, Null)
    /\ calls = 0
    /\ tx = [t \in TxIds |-> IdleTx]
    /\ session = NoSession

SpecRematched == InitRematched /\ [][Next]_vars

\* the interaction routes alone
NextMatching ==
    \/ \E u \in Humans, t \in UserIds : likeUser(u, t)
    \/ \E u \in Humans, t \in UserIds : rejectUser(u, t)
    \/ \E u \in Humans, t \in UserIds : matchUser(u, t)

SpecMatching == Init /\ [][NextMatching]_vars

----------------------------------------------------------------------------
(* unnamed/part_003: the copy of the matching controller that accepts bot  *)
(* targets only                                                            *)

\* the counters likeUser of this copy writes: User.increment, with no clamp
LikeCountersBotOnly(u, userId, previousAction) ==
    IF previousAction = "like"
    THEN u
    ELSE IF previousAction = "reject"
    THEN AddRejects(AddLikes(u, userId, 1), userId, -1)
    ELSE AddLikes(u, userId, 1)

likeUserBotOnly(userId, targetUserId) ==
    /\ Accept
    /\ IF userId = targetUserId
       THEN Reply("likeUser", 400)
       ELSE IF targetUserId \notin Users
       THEN Reply("likeUser", 404)
       ELSE IF UserType(targetUserId) # "bot"
       THEN Reply("likeUser", 400)
       ELSE \E existingInteraction \in
                FindOne(InteractionRows(interactions, userId, targetUserId)),
               found \in
                FindOne(CanonicalChatRows(chats, userId, targetUserId)) :
            LET previousAction == ActionOf(interactions, existingInteraction)
                chat == getOrCreateChatBetweenUsers(
                            chats, userId, targetUserId, found)
            IN  /\ interactions' = Upsert(interactions, userId, targetUserId,
                                          "like", TRUE)
                /\ users' = LikeCountersBotOnly(users, userId, previousAction)
                /\ chats' = chat.chats
                /\ res' = Response("likeUser", 200, TRUE, chat.id)
                /\ UNCHANGED <<messages, pending, tx, session>>

\* the counters rejectUser of this copy writes: User.increment, with no clamp
RejectCountersBotOnly(u, userId, previousAction) ==
    IF previousAction = "like"
    THEN AddRejects(AddLikes(u, userId, -1), userId, 1)
    ELSE IF previousAction = "reject"
    THEN u
    ELSE AddRejects(u, userId, 1)

rejectUserBotOnly(userId, targetUserId) ==
    /\ Accept
    /\ IF userId = targetUserId
       THEN Reply("rejectUser", 400)
       ELSE IF targetUserId \notin Users
       THEN Reply("rejectUser", 404)
       ELSE IF UserType(targetUserId) # "bot"
       THEN Reply("rejectUser", 400)
       ELSE \E existingInteraction \in
                FindOne(InteractionRows(interactions, userId, targetUserId)) :
            LET previousAction == ActionOf(interactions, existingInteraction)
            IN  /\ interactions' = Upsert(interactions, userId, targetUserId,
                                          "reject", FALSE)
                /\ users' = RejectCountersBotOnly(users, userId,
                                                  previousAction)
                /\ res' = Response("rejectUser", 200, FALSE, Null)
                /\ UNCHANGED <<chats, messages, pending, tx, session>>

\* makeMutualMatch of this copy: it increments total_matches of both
makeMutualMatchBotOnly(tbl, u, userId, botId, existing) ==
    IF existing # Null
    THEN [interactions |-> tbl, users |-> u, newlyCreated |-> FALSE]
    ELSE [interactions |->
              Upsert(Upsert(tbl, userId, botId, "match", TRUE),
                     botId, userId, "match", TRUE),
          users |-> AddMatches(AddMatches(u, userId, 1), botId, 1),
          newlyCreated |-> TRUE]

matchUserBotOnly(userId, targetUserId) ==
    /\ Accept
    /\ IF userId = targetUserId
       THEN Reply("matchUser", 400)
       ELSE IF targetUserId \notin Users
       THEN Reply("matchUser", 404)
       ELSE IF UserType(targetUserId) # "bot"
       THEN Reply("matchUser", 400)
       ELSE \E existing \in
                FindOne(MutualMatchRows(interactions, userId, targetUserId)) :
            LET made == makeMutualMatchBotOnly(interactions, users, userId,
                                               targetUserId, existing)
            IN  /\ interactions' = made.interactions
                /\ users' = made.users
                /\ res' = Response("matchUser", 200, FALSE, Null)
                /\ UNCHANGED <<chats, messages, pending, tx, session>>

NextBotOnly ==
    \/ \E u \in Humans, t \in UserIds : likeUserBotOnly(u, t)
    \/ \E u \in Humans, t \in UserIds : rejectUserBotOnly(u, t)
    \/ \E u \in Humans, t \in UserIds : matchUserBotOnly(u, t)

SpecBotOnly == Init /\ [][NextBotOnly]_vars

----------------------------------------------------------------------------
(* likeUser and matchUser of the routed controller, statement by           *)
(* statement, as transactions that interleave.                             *)
(*                                                                         *)
(* A row read with lock: LOCK.UPDATE stays locked until the transaction    *)
(* ends; under REPEATABLE READ a locking read that finds no row locks the  *)
(* gap it searched, which lets other transactions read but makes their     *)
(* inserts into it wait.  A row a transaction inserted or updated is       *)
(* locked until it ends.  A read without lock sees, under REPEATABLE READ, *)
(* what was committed when the transaction made its first read, and under  *)
(* READ COMMITTED what is committed by now.  What a transaction wrote is   *)
(* seen by the others when it commits.                                     *)

\* transaction.rollback() / the end of the transaction: the locks go
Finished(r, status) ==
    [r EXCEPT !.pc = "done", !.status = status,
              !.rowLocks = {}, !.gapLocks = {}, !.insertLocks = {},
              !.userLocks = {}]

\* a locking read of the rows of the pair (u, v) waits for o
ReadBlockedBy(o, u, v) ==
    \/ \E i \in InteractionRows(interactions, u, v) : i \in tx[o].rowLocks
    \/ <<u, v>> \in tx[o].insertLocks

\* the pairs likeUser inserts a row for: those it found no row of
LikeInserts(r) ==
    (IF r.existing = Null THEN {<<r.userId, r.targetUserId>>} ELSE {})
    \cup (IF r.isMatch /\ r.reverse = Null
          THEN {<<r.targetUserId, r.userId>>} ELSE {})

\* the User rows likeUser updates
LikeUsers(r) ==
    IF r.isMatch THEN {r.userId, r.targetUserId} ELSE {r.userId}

\* the pairs makeMutualMatch upserts a row for
MatchInserts(r) == {<<r.userId, r.targetUserId>>, <<r.targetUserId, r.userId>>}

\* the next statement of t waits for a lock that o holds
BlockedBy(t, o) ==
    LET r == tx[t] IN
    CASE r.pc = "lockForward" -> ReadBlockedBy(o, r.userId, r.targetUserId)
      [] r.pc = "lockReverse" -> ReadBlockedBy(o, r.targetUserId, r.userId)
      [] r.pc = "write" ->
            \/ LikeInserts(r) \cap tx[o].gapLocks # {}
            \/ LikeUsers(r) \cap tx[o].userLocks # {}
      [] r.pc = "matchCounters" ->
            /\ r.previousAction \notin {"like", "match"}
            /\ r.userId \in tx[o].userLocks
      [] r.pc = "matchInsert" ->
            \/ MatchInserts(r) \cap tx[o].gapLocks # {}
            \/ r.userId \in tx[o].userLocks
      [] OTHER -> FALSE

NotBlocked(t) == \A o \in TxIds \ {t} : ~BlockedBy(t, o)

\* the gap a locking read locks when it found no row
GapOf(r, row, u, v) ==
    IF row = Null /\ r.isolation = "REPEATABLE READ" THEN {<<u, v>>} ELSE {}

\* likeUser: the request arrives; the target user is fetched inside the
\* transaction, which is the transaction's first read
likeBegin(t, userId, targetUserId) ==
    /\ tx[t].pc = "idle"
    /\ Accept
    /\ tx' = [tx EXCEPT ![t] =
          LET r == [@ EXCEPT !.op = "likeUser",
                             !.userId = userId,
                             !.targetUserId = targetUserId,
                             !.snapshot = Len(chats)]
          IN  IF userId = targetUserId THEN Finished(r, 400)
              ELSE IF targetUserId \notin Users THEN Finished(r, 404)
              ELSE [r EXCEPT !.pc = "lockForward"]]
    /\ UNCHANGED <<store, pending, session, res>>

\* UserInteraction.findOne(actor -> target) with lock: LOCK.UPDATE, and the
\* refusal of a second like
likeLockForward(t) ==
    /\ tx[t].pc = "lockForward"
    /\ NotBlocked(t)
    /\ \E existing \in FindOne(InteractionRows(interactions, tx[t].userId,
                                                 tx[t].targetUserId)) :
        tx' = [tx EXCEPT ![t] =
              IF ActionOf(interactions, existing) \in {"like", "match"}
              THEN Finished(@, 400)
              ELSE [@ EXCEPT !.pc = "lockReverse",
                             !.existing = existing,
                             !.rowLocks = @ \cup ({existing} \ {Null}),
                             !.gapLocks = @ \cup
                                 GapOf(tx[t], existing, tx[t].userId,
                                       tx[t].targetUserId)]]
    /\ UNCHANGED <<store, pending, session, res, calls>>

\* UserInteraction.findOne(target -> actor) with lock: LOCK.UPDATE, and the
\* decision
likeLockReverse(t) ==
    /\ tx[t].pc = "lockReverse"
    /\ NotBlocked(t)
    /\ \E reverse \in FindOne(InteractionRows(interactions,
                                tx[t].targetUserId, tx[t].userId)) :
        tx' = [tx EXCEPT ![t] =
              [@ EXCEPT !.pc = "write",
                        !.reverse = reverse,
                        !.isMatch =
                            IsMatch(UserType(tx[t].targetUserId) = "bot",
                                    ActionOf(interactions, reverse)),
                        !.rowLocks = @ \cup ({reverse} \ {Null}),
                        !.gapLocks = @ \cup
                            GapOf(tx[t], reverse, tx[t].targetUserId,
                                  tx[t].userId)]]
    /\ UNCHANGED <<store, pending, session, res, calls>>

\* the writes of the rows and of the counters: the rows it inserted and
\* the User rows it updated are locked from here on
likeWrite(t) ==
    /\ tx[t].pc = "write"
    /\ NotBlocked(t)
    /\ tx' = [tx EXCEPT ![t] =
          [@ EXCEPT !.pc = IF tx[t].isMatch THEN "chat" ELSE "commit",
                    !.insertLocks = LikeInserts(tx[t]),
                    !.userLocks = LikeUsers(tx[t])]]
    /\ UNCHANGED <<store, pending, session, res, calls>>

\* matchUser: the request arrives; the target user and the actor's row for
\* the target are read without lock
matchBegin(t, userId, targetUserId) ==
    /\ tx[t].pc = "idle"
    /\ Accept
    /\ \E existingInteraction \in
            FindOne(InteractionRows(interactions, userId, targetUserId)) :
        tx' = [tx EXCEPT ![t] =
          LET r == [@ EXCEPT !.op = "matchUser",
                             !.userId = userId,
                             !.targetUserId = targetUserId,
                             !.snapshot = Len(chats)]
          IN  IF userId = targetUserId THEN Finished(r, 400)
              ELSE IF targetUserId \notin Users THEN Finished(r, 404)
              ELSE IF UserType(targetUserId) # "bot" THEN Finished(r, 400)
              ELSE [r EXCEPT !.pc = "matchCounters",
                             !.previousAction =
                                 ActionOf(interactions, existingInteraction),
                             !.seenRows =
                                 IF r.isolation = "REPEATABLE READ"
                                 THEN interactions ELSE << >>]]
    /\ UNCHANGED <<store, pending, session, res>>

\* User.increment of the like / reject counters, which locks the actor's
\* User row, and the findOne of makeMutualMatch, a read without lock
matchCounters(t) ==
    /\ tx[t].pc = "matchCounters"
    /\ NotBlocked(t)
    /\ LET r == tx[t]
           rows == IF r.isolation = "REPEATABLE READ"
                   THEN r.seenRows ELSE interactions
       IN  \E existing \in
                FindOne(MutualMatchRows(rows, r.userId, r.targetUserId)) :
            tx' = [tx EXCEPT ![t] =
                [@ EXCEPT !.pc = IF existing # Null
                                 THEN "commit" ELSE "matchInsert",
                          !.existing = existing,
                          !.userLocks =
                              IF r.previousAction \in {"like", "match"}
                              THEN @ ELSE @ \cup {r.userId}]]
    /\ UNCHANGED <<store, pending, session, res, calls>>

\* the two upserts of makeMutualMatch and its User.increment
matchInsert(t) ==
    /\ tx[t].pc = "matchInsert"
    /\ NotBlocked(t)
    /\ tx' = [tx EXCEPT ![t] =
          [@ EXCEPT !.pc = "chat",
                    !.newlyCreated = TRUE,
                    !.insertLocks = MatchInserts(tx[t]),
                    !.userLocks = @ \cup {tx[t].userId}]]
    /\ UNCHANGED <<store, pending, session, res, calls>>

\* Chat.findOne of getOrCreateChatBetweenUsers, a read without lock
chatLookup(t) ==
    /\ tx[t].pc = "chat"
    /\ LET seen == IF tx[t].isolation = "REPEATABLE READ"
                   THEN tx[t].snapshot ELSE Len(chats)
       IN  \E found \in FindOne({c \in CanonicalChatRows(chats, tx[t].userId,
                                        tx[t].targetUserId) : c <= seen}) :
            tx' = [tx EXCEPT ![t] =
                      [@ EXCEPT !.pc = "commit", !.found = found]]
    /\ UNCHANGED <<store, pending, session, res, calls>>

\* likeUser: Chat.create when no chat was found, and transaction.commit()
likeCommit(t) ==
    /\ tx[t].pc = "commit"
    /\ tx[t].op = "likeUser"
    /\ LET r == tx[t]
           chat == getOrCreateChatBetweenUsers(chats, r.userId,
                                               r.targetUserId, r.found)
           answer == LikeResponse(r.isMatch,
                                  IF r.isMatch THEN chat.id ELSE Null)
       IN  /\ interactions' = LikeRows(interactions, r.existing, r.reverse,
                                       r.userId, r.targetUserId, r.isMatch)
           /\ users' = LikeCounters(users, r.userId, r.targetUserId,
                                    ActionOf(interactions, r.existing),
                                    ActionOf(interactions, r.reverse),
                                    r.isMatch)
           /\ chats' = IF r.isMatch THEN chat.chats ELSE chats
           /\ tx' = [tx EXCEPT ![t] =
                 [Finished(@, answer.status) EXCEPT
                     !.chat_id = IF r.isMatch THEN chat.id ELSE Null]]
    /\ UNCHANGED <<messages, pending, session, res, calls>>

\* matchUser: Chat.create when the match is new and no chat was found, and
\* transaction.commit()
matchCommit(t) ==
    /\ tx[t].pc = "commit"
    /\ tx[t].op = "matchUser"
    /\ LET r == tx[t]
           made == makeMutualMatch(
                       interactions,
                       MatchCounters(users, r.userId, r.previousAction),
                       r.userId, r.targetUserId, r.existing)
           chat == getOrCreateChatBetweenUsers(chats, r.userId,
                                               r.targetUserId, r.found)
       IN  /\ interactions' = made.interactions
           /\ users' = made.users
           /\ chats' = IF made.newlyCreated THEN chat.chats ELSE chats
           /\ tx' = [tx EXCEPT ![t] =
                 [Finished(@, 200) EXCEPT
                     !.chat_id = IF made.newlyCreated THEN chat.id ELSE Null]]
    /\ UNCHANGED <<messages, pending, session, res, calls>>

\* two transactions wait for each other: the database ends one of them
\* with an error, which the catch block answers with 500
deadlock(t) ==
    /\ \E o \in TxIds \ {t} : BlockedBy(t, o) /\ BlockedBy(o, t)
    /\ tx' = [tx EXCEPT ![t] = Finished(@, 500)]
    /\ UNCHANGED <<store, pending, session, res, calls>>

\* the stores the interleaved requests start from: the empty one, and the
\* one that rejectUser(2, 3) and rejectUser(3, 2) leave
InitConc ==
    /\ \/ /\ interactions = << >>
          /\ users = [u \in Users |->
                [total_likes |-> 0, total_matches |-> 0, total_rejects |-> 0]]
       \/ /\ interactions = <<Interaction(2, 3, "reject", FALSE),
                               Interaction(3, 2, "reject", FALSE)>>
          /\ users = [u \in Users |->
                [total_likes |-> 0, total_matches |-> 0,
                 total_rejects |-> IF u \in {2, 3} THEN 1 ELSE 0]]
    /\ chats = << >>
    /\ messages = << >>
    /\ pending = {}
    /\ res = Response("none", NoResponse, FALSE, Null)
    /\ calls = 0
    /\ \E level \in Isolations :
          tx = [t \in TxIds |-> [IdleTx EXCEPT !.isolation = level]]
    /\ session = NoSession

NextConc ==
    \/ \E t \in TxIds, u \in Humans, target \in UserIds :
            likeBegin(t, u, target)
    \/ \E t \in TxIds : likeLockForward(t)
    \/ \E t \in TxIds : likeLockReverse(t)
    \/ \E t \in TxIds : likeWrite(t)
    \/ \E t \in TxIds, u \in Humans, target \in UserIds :
            matchBegin(t, u, target)
    \/ \E t \in TxIds : matchCounters(t)
    \/ \E t \in TxIds : matchInsert(t)
    \/ \E t \in TxIds : chatLookup(t)
    \/ \E t \in TxIds : likeCommit(t)
    \/ \E t \in TxIds : matchCommit(t)
    \/ \E t \in TxIds : deadlock(t)

SpecConc == InitConc /\ [][NextConc]_vars

----------------------------------------------------------------------------
(* controllers/user/chatController.js, sendMessage as interleaved          *)
(* transactions.  A handler reads the chat, checks the request and inserts *)
(* its message row (sendBegin); later it updates the chat row from the     *)
(* values it read and commits (sendCommit); for a bot receiver it then     *)
(* waits for the reply generator (botReply).  A row inserted by a          *)
(* transaction has its id at once and is seen by others after the commit.  *)

\* the rows inserted by transactions that have not committed
UncommittedMessages ==
    {tx[t].userMessage : t \in {o \in TxIds : tx[o].pc = "sendCommit"}}
UncommittedChats ==
    {tx[t].chat : t \in {o \in TxIds : tx[o].pc = "sendCommit" /\ tx[o].created}}
CommittedMessages == DOMAIN messages \ UncommittedMessages
CommittedChats == DOMAIN chats \ UncommittedChats

\* Message.findOne({id: replyToMessageId, chat_id: chat.id}) finds a row
ReplyToValid(replyToMessageId, chatId) ==
    \/ replyToMessageId = Null
    \/ /\ replyToMessageId \in CommittedMessages
       /\ messages[replyToMessageId].chat_id = chatId

\* the checks of sendMessage once the chat is known (row id of tbl, created
\* by this transaction or not), then Message.create
sendInsert(t, tbl, id, created, userId, receiverId, text, replyToMessageId) ==
    IF tbl[id].participant_1_id # userId /\ tbl[id].participant_2_id # userId
    THEN Reply("sendMessage", 403)
    ELSE IF receiverId \notin Users
    THEN Reply("sendMessage", 404)
    ELSE IF ~ReplyToValid(replyToMessageId, id)
    THEN Reply("sendMessage", 400)
    ELSE /\ chats' = tbl
         /\ messages' = Append(messages,
                            Message(id, userId, receiverId, text,
                                    replyToMessageId, "real"))
         /\ tx' = [tx EXCEPT ![t] =
                      [IdleTx EXCEPT !.pc = "sendCommit",
                                     !.op = "sendMessage",
                                     !.userId = userId,
                                     !.targetUserId = receiverId,
                                     !.chat = id,
                                     !.created = created,
                                     !.userMessage = Len(messages) + 1,
                                     !.unread_count_p1 = tbl[id].unread_count_p1,
                                     !.unread_count_p2 = tbl[id].unread_count_p2]]
         /\ UNCHANGED <<interactions, users, pending, res, session>>

sendBegin(t, userId, chatId, receiverIdBody, text, replyToMessageId) ==
    /\ tx[t].pc = "idle"
    \* the connection pool hands out its first free connection
    /\ \A o \in TxIds : o < t => tx[o].pc # "idle"
    /\ Accept
    /\ IF text = ""
       THEN Reply("sendMessage", 400)
       ELSE IF chatId # Null
       THEN IF chatId \notin CommittedChats
            THEN Reply("sendMessage", 404)
            ELSE LET chat == chats[chatId]
                     receiverId == IF chat.participant_1_id = userId
                                   THEN chat.participant_2_id
                                   ELSE chat.participant_1_id
                 IN  sendInsert(t, chats, chatId, FALSE, userId, receiverId,
                                text, replyToMessageId)
       ELSE IF receiverIdBody = Null
       THEN Reply("sendMessage", 400)
       ELSE IF receiverIdBody = userId
       THEN Reply("sendMessage", 400)
       ELSE \E found \in FindOne(PairChatRows(chats, userId, receiverIdBody)
                                    \cap CommittedChats) :
            LET chat == FindOrCreateChat(chats, userId, receiverIdBody, found)
            IN  sendInsert(t, chat.chats, chat.id, found = Null, userId,
                           receiverIdBody, text, replyToMessageId)

\* the handler's chat instance: the row with the counters as the handler
\* read them
ChatInstance(row, r) ==
    [row EXCEPT !.unread_count_p1 = r.unread_count_p1,
                !.unread_count_p2 = r.unread_count_p2]

\* UPDATE pb_chats SET <the keys of updateData> on the stored row
WriteUpdateData(row, instance, isSenderP1) ==
    IF isSenderP1
    THEN [row EXCEPT !.last_message_id = instance.last_message_id,
                     !.unread_count_p2 = instance.unread_count_p2]
    ELSE [row EXCEPT !.last_message_id = instance.last_message_id,
                     !.unread_count_p1 = instance.unread_count_p1]

\* chat.update(updateData) and commit; then the response, or the wait for
\* the bot reply when the receiver is a bot
sendCommit(t) ==
    /\ tx[t].pc = "sendCommit"
    /\ LET r == tx[t]
           isSenderP1 == chats[r.chat].participant_1_id = r.userId
           chat == ChatAfterUserMessage(ChatInstance(chats[r.chat], r),
                                        r.userId, r.userMessage)
       IN  /\ UserType(r.targetUserId) = "bot"
                 => Cardinality(pending) < MaxPending
           /\ chats' = [chats EXCEPT ![r.chat] =
                            WriteUpdateData(@, chat, isSenderP1)]
           /\ IF UserType(r.targetUserId) = "bot"
              THEN /\ pending' = pending \cup
                           {[chat_id |-> r.chat, userId |-> r.userId,
                             receiverId |-> r.targetUserId,
                             userMessage |-> r.userMessage,
                             isSenderP1 |-> isSenderP1,
                             unread_count_p1 |-> chat.unread_count_p1,
                             unread_count_p2 |-> chat.unread_count_p2]}
                   /\ UNCHANGED res
              ELSE /\ res' = [Response("sendMessage", 200, FALSE, r.chat)
                                EXCEPT !.user_message = r.userMessage]
                   /\ UNCHANGED pending
    /\ tx' = [tx EXCEPT ![t] = IdleTx]
    /\ UNCHANGED <<interactions, users, messages, calls, session>>

----------------------------------------------------------------------------
(* The chat routes of unnamed/part_001 whose handlers (blockChat,          *)
(* deleteMessage, getChatMessagesCursor of chatController) are documented  *)
(* there and specified in the chat thread manager section.                 *)

BlockActions == {"block", "unblock"}

\* POST /chats/:chatId/block: sets the caller's own chat_status
blockChat(userId, chatId, action) ==
    /\ Accept
    /\ IF chatId \notin CommittedChats
       THEN Reply("blockChat", 404)
       ELSE IF /\ chats[chatId].participant_1_id # userId
               /\ chats[chatId].participant_2_id # userId
       THEN Reply("blockChat", 403)
       ELSE LET status == IF action = "block" THEN "blocked" ELSE "active"
                isP1 == chats[chatId].participant_1_id = userId
                old == IF isP1 THEN chats[chatId].chat_status_p1
                       ELSE chats[chatId].chat_status_p2
            IN  /\ chats' = IF isP1
                            THEN [chats EXCEPT ![chatId].chat_status_p1 = status]
                            ELSE [chats EXCEPT ![chatId].chat_status_p2 = status]
                /\ res' = [Response("blockChat", 200, FALSE, chatId)
                             EXCEPT !.repeated = (old = status)]
                /\ UNCHANGED <<interactions, users, messages, pending, tx,
                               session>>

\* the text that replaces the text of a deleted message
DeletedText == "This message was deleted"

\* a handler that refuses a message that is deleted already
deleteMessageOnce(userId, chatId, messageId) ==
    /\ Accept
    /\ IF chatId \notin CommittedChats
       THEN Reply("deleteMessage", 404)
       ELSE IF /\ chats[chatId].participant_1_id # userId
               /\ chats[chatId].participant_2_id # userId
       THEN Reply("deleteMessage", 403)
       ELSE IF \/ messageId \notin CommittedMessages
               \/ messages[messageId].chat_id # chatId
               \/ messages[messageId].status = "deleted"
       THEN Reply("deleteMessage", 404)
       ELSE IF messages[messageId].sender_id # userId
       THEN Reply("deleteMessage", 403)
       ELSE /\ messages' = [messages EXCEPT
                               ![messageId].status = "deleted",
                               ![messageId].message = DeletedText]
            /\ res' = [Response("deleteMessage", 200, FALSE, chatId)
                         EXCEPT !.user_message = messageId]
            /\ UNCHANGED <<interactions, users, chats, pending, tx, session>>

\* POST /chats/:chatId/messages/:messageId/delete
deleteMessage(userId, chatId, messageId) ==
    /\ Accept
    /\ IF chatId \notin CommittedChats
       THEN Reply("deleteMessage", 404)
       ELSE IF /\ chats[chatId].participant_1_id # userId
               /\ chats[chatId].participant_2_id # userId
       THEN Reply("deleteMessage", 403)
       ELSE IF \/ messageId \notin CommittedMessages
               \/ messages[messageId].chat_id # chatId
       THEN Reply("deleteMessage", 404)
       ELSE IF messages[messageId].sender_id # userId
       THEN Reply("deleteMessage", 403)
       ELSE /\ messages' = [messages EXCEPT
                               ![messageId].status = "deleted",
                               ![messageId].message = DeletedText]
            /\ res' = [Response("deleteMessage", 200, FALSE, chatId)
                         EXCEPT !.user_message = messageId,
                                !.repeated =
                                    (messages[messageId].status = "deleted")]
            /\ UNCHANGED <<interactions, users, chats, pending, tx, session>>

\* the page sizes a client asks for
Limits == {1, 2}

\* the ids of the set rows that are at most n, in ascending order
RECURSIVE Ascending(_, _)
Ascending(n, rows) ==
    IF n = 0 THEN << >>
    ELSE IF n \in rows THEN Append(Ascending(n - 1, rows), n)
    ELSE Ascending(n - 1, rows)

\* SELECT ... WHERE chat_id = :chatId AND id > :cursor AND status <> 'deleted'
\* ORDER BY id ASC LIMIT :limit
CursorPage(chatId, cursor, limit) ==
    LET rows == {m \in CommittedMessages :
                    /\ messages[m].chat_id = chatId
                    /\ m > cursor
                    /\ messages[m].status # "deleted"}
        all == Ascending(Len(messages), rows)
    IN  SubSeq(all, 1, Min(limit, Len(all)))

\* GET /chats/:chatId/messages/cursor.  The first request of the client
\* names a cursor (0: none); each later request names the id of the last
\* item of the page before.
getChatMessagesCursor(userId, chatId, cursor, limit) ==
    /\ IF session = NoSession
       THEN TRUE
       ELSE /\ userId = session.userId
            /\ chatId = session.chat_id
            /\ cursor = session.cursor
    /\ IF chatId \notin CommittedChats
       THEN Reply("getChatMessagesCursor", 404) /\ UNCHANGED calls
       ELSE IF /\ chats[chatId].participant_1_id # userId
               /\ chats[chatId].participant_2_id # userId
       THEN Reply("getChatMessagesCursor", 403) /\ UNCHANGED calls
       ELSE LET page == CursorPage(chatId, cursor, limit)
                next == IF page = << >> THEN cursor ELSE page[Len(page)]
            IN  /\ session' =
                      IF session = NoSession
                      THEN [userId |-> userId, chat_id |-> chatId,
                            start |-> cursor, cursor |-> next, got |-> page]
                      ELSE [session EXCEPT !.cursor = next,
                                           !.got = @ \o page]
                /\ res' = [Response("getChatMessagesCursor", 200, FALSE,
                                    chatId) EXCEPT !.page = page]
                /\ UNCHANGED <<store, pending, tx, calls>>

\* the page numbers a client asks for
PageNumbers == {1, 2}

\* Message.findAndCountAll({where: {chat_id}, order: created_at ASC, limit,
\* offset}): created_at is set when the row is inserted, so the order is
\* the order of the ids
OffsetPage(chatId, page, limit) ==
    LET rows == {m \in CommittedMessages : messages[m].chat_id = chatId}
        all == Ascending(Len(messages), rows)
        offset == (page - 1) * limit
    IN  SubSeq(all, offset + 1, Min(offset + limit, Len(all)))

\* GET /chats/:chatId/messages
getChatMessages(userId, chatId, page, limit) ==
    /\ IF chatId \notin CommittedChats
       THEN Reply("getChatMessages", 404)
       ELSE IF /\ chats[chatId].participant_1_id # userId
               /\ chats[chatId].participant_2_id # userId
       THEN Reply("getChatMessages", 403)
       ELSE /\ res' = [Response("getChatMessages", 200, FALSE, chatId)
                         EXCEPT !.page = OffsetPage(chatId, page, limit)]
            /\ UNCHANGED <<store, pending, tx, session>>
    /\ UNCHANGED calls

\* the chat routes with the message listing, one request at a time
NextList ==
    \/ \E u \in Humans, q \in SendRequests :
            sendMessage(u, q.chatId, q.receiverId, q.message,
                        q.replyToMessageId)
    \/ \E p \in pending, replied \in BOOLEAN : botReply(p, replied)
    \/ \E u \in Humans, c \in 1..(Len(chats) + 1),
          m \in 1..(Len(messages) + 1) :
            deleteMessage(u, c, m)
    \/ \E u \in Humans, c \in 1..(Len(chats) + 1),
          page \in PageNumbers, limit \in Limits :
            getChatMessages(u, c, page, limit)

SpecList == Init /\ [][NextList]_vars

\* the chat routes, one request at a time
NextSend ==
    \/ \E u \in Humans, q \in SendRequests :
            sendMessage(u, q.chatId, q.receiverId, q.message,
                        q.replyToMessageId)
    \/ \E p \in pending, replied \in BOOLEAN : botReply(p, replied)
    \/ \E u \in Humans, c \in 1..(Len(chats) + 1),
          m \in 1..(Len(messages) + 1) :
            deleteMessage(u, c, m)

SpecSend == Init /\ [][NextSend]_vars

\* the reply generator returns or throws within its timeout
SendFairness ==
    WF_vars(\E p \in pending, replied \in BOOLEAN : botReply(p, replied))

SpecSendFair == SpecSend /\ SendFairness

\* the chat routes, sendMessage as interleaved transactions
NextChat ==
    \/ \E t \in TxIds, u \in Humans, q \in SendRequests :
            sendBegin(t, u, q.chatId, q.receiverId, q.message,
                      q.replyToMessageId)
    \/ \E t \in TxIds : sendCommit(t)
    \/ \E p \in pending, replied \in BOOLEAN : botReply(p, replied)
    \/ \E u \in Humans, c \in 1..(Len(chats) + 1), a \in BlockActions :
            blockChat(u, c, a)
    \/ \E u \in Humans, c \in 1..(Len(chats) + 1),
          m \in 1..(Len(messages) + 1) :
            deleteMessage(u, c, m)

SpecChat == Init /\ [][NextChat]_vars

\* a client reads pages while sendMessage transactions run
NextPages ==
    \/ \E t \in TxIds, u \in Humans, q \in SendRequests :
            sendBegin(t, u, q.chatId, q.receiverId, q.message,
                      q.replyToMessageId)
    \/ \E t \in TxIds : sendCommit(t)
    \/ \E p \in pending, replied \in BOOLEAN : botReply(p, replied)
    \/ \E u \in Humans, c \in 1..(Len(chats) + 1),
          cursor \in 0..Len(messages), limit \in Limits :
            getChatMessagesCursor(u, c, cursor, limit)

SpecPages == Init /\ [][NextPages]_vars

----------------------------------------------------------------------------
(* What the claims speak of *)

\* the pair (u, t) has a row, and every row of it records action a with
\* is_mutual = m
EdgeIs(tbl, u, t, a, m) ==
    /\ InteractionRows(tbl, u, t) # {}
    /\ \A i \in InteractionRows(tbl, u, t) :
            tbl[i].action = a /\ tbl[i].is_mutual = m

\* the pair (u, t) has no row, or only rows that record a reject
EdgeAbsentOrReject(tbl, u, t) ==
    \A i \in InteractionRows(tbl, u, t) : tbl[i].action = "reject"

\* both edges of the pair record a mutual match
Matched(tbl, a, b) ==
    EdgeIs(tbl, a, b, "match", TRUE) /\ EdgeIs(tbl, b, a, "match", TRUE)

\* the rows of the pair (u, t) are the same rows with the same contents
EdgeUnchanged(u, t) ==
    /\ InteractionRows(interactions', u, t) = InteractionRows(interactions, u, t)
    /\ \A i \in InteractionRows(interactions, u, t) :
            interactions'[i] = interactions[i]

----------------------------------------------------------------------------
C2_LikeHumanReciprocity ==
    [][\A a \in Humans : \A b \in Humans \ {a} :
          (likeUser(a, b) /\ EdgeAbsentOrReject(interactions, a, b)) =>
              IF EdgeIs(interactions, b, a, "like", FALSE)
              THEN /\ Matched(interactions', a, b)
                   /\ res'.status = 200 /\ res'.is_match
              ELSE /\ EdgeIs(interactions', a, b, "like", FALSE)
                   /\ res'.status = 200 /\ ~res'.is_match
                   /\ chats' = chats
                   /\ EdgeUnchanged(b, a)]_vars

\* the part of C2 that speaks of the rows and the chats alone
LikeHumanRows ==
    [][\A a \in Humans : \A b \in Humans \ {a} :
          (likeUser(a, b) /\ EdgeAbsentOrReject(interactions, a, b)) =>
              IF EdgeIs(interactions, b, a, "like", FALSE)
              THEN Matched(interactions', a, b)
              ELSE /\ EdgeIs(interactions', a, b, "like", FALSE)
                   /\ chats' = chats
                   /\ EdgeUnchanged(b, a)]_vars

C4_MutualIsBilateral ==
    \A i \in DOMAIN interactions :
        interactions[i].is_mutual =>
            \E j \in InteractionRows(interactions,
                                     interactions[i].target_user_id,
                                     interactions[i].user_id) :
                interactions[j].action = "match" /\ interactions[j].is_mutual

(* C5: whenever a user rejects a target the user is mutually matched with, *)
(* by either copy of rejectUser, the step leaves A->B a non-mutual reject, *)
(* no mutual row B->A, and total_matches of both one lower and not         *)
(* negative.                                                               *)
C5_RejectBreaksMatch ==
    [][\A a \in Humans : \A b \in Users \ {a} :
          ((rejectUser(a, b) \/ rejectUserBotOnly(a, b))
              /\ Matched(interactions, a, b)) =>
              /\ EdgeIs(interactions', a, b, "reject", FALSE)
              /\ \A j \in InteractionRows(interactions', b, a) :
                     ~interactions'[j].is_mutual
              /\ \A u \in {a, b} :
                     /\ users'[u].total_matches = users[u].total_matches - 1
                     /\ users'[u].total_matches >= 0]_vars

C9_OppositeLikesSerialise ==
    \A t \in TxIds, o \in TxIds :
        (/\ tx[t].pc = "done" /\ tx[o].pc = "done"
         /\ tx[t].op = "likeUser" /\ tx[o].op = "likeUser"
         /\ tx[t].userId \in Humans /\ tx[t].targetUserId \in Humans
         /\ tx[t].userId # tx[t].targetUserId
         /\ tx[o].userId = tx[t].targetUserId
         /\ tx[o].targetUserId = tx[t].userId) =>
            /\ Matched(interactions, tx[t].userId, tx[t].targetUserId)
            /\ users[tx[t].userId].total_matches = 1
            /\ users[tx[t].targetUserId].total_matches = 1
            /\ Cardinality(PairChatRows(chats, tx[t].userId,
                                         tx[t].targetUserId)) = 1

----------------------------------------------------------------------------
\* a row of pb_messages that the user userId sent into the chat chatId
IsUserMessage(tbl, m, chatId, userId) ==
    /\ m \in DOMAIN tbl
    /\ tbl[m].chat_id = chatId
    /\ tbl[m].sender_id = userId
    /\ tbl[m].sender_type = "real"

(* C11: in sendMessage to a bot, when the handler starts to wait for the   *)
(* reply generator the user's message is a committed row and the chat row  *)
(* already points at it and counts it as unread for the bot; and the step  *)
(* that ends the wait (a reply saved, or the generator's failure) leaves   *)
(* every row of pb_messages that existed, the user's message among them,   *)
(* exactly as it was.                                                      *)
C11_HumanMessageCommittedFirst ==
    [][/\ \A p \in pending' \ pending :
            /\ p.userMessage \in CommittedMessages'
            /\ IsUserMessage(messages', p.userMessage, p.chat_id, p.userId)
            /\ chats'[p.chat_id].last_message_id = p.userMessage
            /\ IF p.isSenderP1
               THEN chats'[p.chat_id].unread_count_p2 > 0
               ELSE chats'[p.chat_id].unread_count_p1 > 0
       /\ \A p \in pending \ pending' :
            /\ IsUserMessage(messages, p.userMessage, p.chat_id, p.userId)
            /\ Len(messages') >= Len(messages)
            /\ \A m \in DOMAIN messages : messages'[m] = messages[m]]_vars

\* a bot reply was saved and the message it answers is still the user's
C11_Witness ==
    \E m \in DOMAIN messages :
        /\ messages[m].sender_type = "bot"
        /\ messages[m].reply_id \in DOMAIN messages
        /\ messages[messages[m].reply_id].sender_type = "real"
        /\ messages[messages[m].reply_id].message = "hi"
        /\ pending = {}

(* C12: when the reply generator fails in sendMessage to a bot, the        *)
(* handler's last step appends no message, leaves every chat row (unread   *)
(* counters and last_message_id) as it was, and answers success with the   *)
(* user's message and no bot message.                                      *)
C12_GeneratorFailureIsSwallowed ==
    [][\A p \in pending :
          botReply(p, FALSE) =>
              /\ messages' = messages
              /\ chats' = chats
              /\ res'.op = "sendMessage"
              /\ res'.status = 200
              /\ res'.user_message = p.userMessage
              /\ res'.bot_message = Null]_vars

\* a sendMessage to a bot was answered with success and no bot message, and
\* no row answers the user's message
C12_Witness ==
    /\ res.op = "sendMessage"
    /\ res.status = 200
    /\ res.user_message \in DOMAIN messages
    /\ res.bot_message = Null
    /\ messages[res.user_message].receiver_id \in Bots
    /\ \A m \in DOMAIN messages : messages[m].reply_id # res.user_message
    /\ chats[messages[res.user_message].chat_id].last_message_id
           = res.user_message

(* C13: when the reply generator succeeds in sendMessage to a bot, the     *)
(* handler's last step appends exactly one message, sent by the bot to the *)
(* user with sender_type bot and reply_id the user's message, and the      *)
(* user's unread counter on the chat row grows by exactly 1.               *)
C13_BotReplyCountsOnce ==
    [][\A p \in pending :
          botReply(p, TRUE) =>
              /\ Len(messages') = Len(messages) + 1
              /\ \A m \in DOMAIN messages : messages'[m] = messages[m]
              /\ LET bot == messages'[Len(messages')]
                 IN  /\ bot.sender_type = "bot"
                     /\ bot.sender_id = p.receiverId
                     /\ bot.receiver_id = p.userId
                     /\ bot.reply_id = p.userMessage
                     /\ bot.chat_id = p.chat_id
              /\ IF chats[p.chat_id].participant_1_id = p.userId
                 THEN chats'[p.chat_id].unread_count_p1
                          = chats[p.chat_id].unread_count_p1 + 1
                 ELSE chats'[p.chat_id].unread_count_p2
                          = chats[p.chat_id].unread_count_p2 + 1]_vars

OtherStatus(chat, userId) ==
    IF chat.participant_1_id = userId
    THEN chat.chat_status_p2
    ELSE chat.chat_status_p1

(* C15: a sendMessage into a chat that the other participant has blocked   *)
(* (a request with nothing else wrong: a text, and a reply id of the chat  *)
(* or none) is answered 403, appends no message and changes no chat row;   *)
(* and a                                                                   *)
(* block or unblock request changes nothing but the caller's own           *)
(* chat_status of that chat.                                               *)
C15_BlockedChatRefusesSend ==
    [][/\ \A t \in TxIds, u \in Humans, q \in SendRequests :
            (/\ sendBegin(t, u, q.chatId, q.receiverId, q.message,
                          q.replyToMessageId)
             /\ q.chatId \in CommittedChats
             /\ u \in {chats[q.chatId].participant_1_id,
                       chats[q.chatId].participant_2_id}
             /\ OtherStatus(chats[q.chatId], u) = "blocked"
             /\ ReplyToValid(q.replyToMessageId, q.chatId))
            => /\ res'.status = 403
               /\ messages' = messages
               /\ chats' = chats
       /\ \A u \in Humans, c \in DOMAIN chats, a \in BlockActions :
            blockChat(u, c, a)
            => /\ messages' = messages
               /\ \A k \in DOMAIN chats :
                     \/ chats'[k] = chats[k]
                     \/ /\ k = c
                        /\ chats[c].participant_1_id = u
                        /\ chats'[c] = [chats[c] EXCEPT
                                           !.chat_status_p1 =
                                               chats'[c].chat_status_p1]
                     \/ /\ k = c
                        /\ chats[c].participant_2_id = u
                        /\ chats'[c] = [chats[c] EXCEPT
                                           !.chat_status_p2 =
                                               chats'[c].chat_status_p2]]_vars

(* C16: the step that commits a sendMessage of user S to a real user       *)
(* answers success, makes S's one new message row visible, sets the chat's *)
(* last_message_id to it, makes the receiver's unread counter one more     *)
(* than the stored one, and leaves S's own unread counter and both         *)
(* participants' archive and chat_status fields as they were.              *)
C16_SendToHumanFrame ==
    [][\A t \in TxIds :
          (sendCommit(t) /\ UserType(tx[t].targetUserId) = "real") =>
              LET r == tx[t]
                  old == chats[r.chat]
                  new == chats'[r.chat]
              IN  /\ res'.status = 200
                  /\ res'.user_message = r.userMessage
                  /\ messages' = messages
                  /\ IsUserMessage(messages', r.userMessage, r.chat, r.userId)
                  /\ r.userMessage \in CommittedMessages'
                  /\ new.last_message_id = r.userMessage
                  /\ IF old.participant_1_id = r.userId
                     THEN /\ new.unread_count_p2 = old.unread_count_p2 + 1
                          /\ new.unread_count_p1 = old.unread_count_p1
                     ELSE /\ new.unread_count_p1 = old.unread_count_p1 + 1
                          /\ new.unread_count_p2 = old.unread_count_p2
                  /\ new.is_archived_p1 = old.is_archived_p1
                  /\ new.is_archived_p2 = old.is_archived_p2
                  /\ new.chat_status_p1 = old.chat_status_p1
                  /\ new.chat_status_p2 = old.chat_status_p2
                  /\ \A k \in DOMAIN chats : k # r.chat => chats'[k] = chats[k]
                  ]_vars

\* every reply_id names an earlier row of the same chat, and a bot's reply
\* names a message that a user sent to that bot
ReplyInSameChat ==
    \A m \in DOMAIN messages :
        LET r == messages[m].reply_id
        IN  r # Null =>
                /\ r \in DOMAIN messages
                /\ r < m
                /\ messages[r].chat_id = messages[m].chat_id
                /\ messages[m].sender_type = "bot" =>
                       /\ messages[r].sender_type = "real"
                       /\ messages[r].sender_id = messages[m].receiver_id
                       /\ messages[r].receiver_id = messages[m].sender_id

\* the request q of user u names a replied message that is no row, or a row
\* of a chat other than the one the request is for
BadReplyTo(u, q) ==
    /\ q.replyToMessageId # Null
    /\ \/ q.replyToMessageId \notin DOMAIN messages
       \/ /\ q.chatId \in DOMAIN chats
          /\ messages[q.replyToMessageId].chat_id # q.chatId
       \/ /\ q.chatId = Null
          /\ q.receiverId # Null
          /\ messages[q.replyToMessageId].chat_id
                 \notin PairChatRows(chats, u, q.receiverId)

(* C17: in every state each message with a reply_id names a message of its *)
(* own chat (a bot's reply: the user's message it answers); and a          *)
(* sendMessage whose replyToMessageId is no message, or a message of       *)
(* another chat, is answered with an error and appends nothing.            *)
C17_ReplyStaysInChat ==
    /\ []ReplyInSameChat
    /\ [][\A u \in Humans, q \in SendRequests :
             (/\ sendMessage(u, q.chatId, q.receiverId, q.message,
                             q.replyToMessageId)
              /\ BadReplyTo(u, q))
             => /\ res'.status \in {400, 403, 404}
                /\ messages' = messages
                /\ chats' = chats]_vars

\* with two chats in the store, a user's message replies to another one
C17_Witness ==
    /\ Len(chats) > 1
    /\ \E m \in DOMAIN messages :
          /\ messages[m].sender_type = "real"
          /\ messages[m].reply_id # Null

(* C18: a likeUser call that passes its checks and commits (it writes the  *)
(* actor's row) is answered with success, with is_match true exactly when  *)
(* the actor's row now records a match, and with chat_id a chat row of the *)
(* pair when is_match is true and null when it is false.                   *)
C18_LikeResponse ==
    [][\A u \in Humans, t \in Users :
          (likeUser(u, t) /\ interactions' # interactions) =>
              /\ res'.op = "likeUser"
              /\ res'.status = 200
              /\ res'.is_match =
                     (\E i \in InteractionRows(interactions', u, t) :
                          interactions'[i].action = "match")
              /\ IF res'.is_match
                 THEN res'.chat_id \in PairChatRows(chats', u, t)
                 ELSE res'.chat_id = Null]_vars

(* C19: a delete of a committed message of the chat by its sender succeeds *)
(* and                                                                     *)
(* leaves the row with status deleted and the placeholder text, its other  *)
(* columns and all other rows as they were; when the row was deleted       *)
(* already the request succeeds as well and changes nothing in the store.  *)
C19_DeleteIsIdempotent ==
    [][\A u \in Humans, c \in DOMAIN chats, m \in DOMAIN messages :
          (/\ deleteMessage(u, c, m)
           /\ m \in CommittedMessages
           /\ messages[m].chat_id = c
           /\ messages[m].sender_id = u)
          => /\ res'.op = "deleteMessage"
             /\ res'.status = 200
             /\ messages' = [messages EXCEPT ![m].status = "deleted",
                                             ![m].message = DeletedText]
             /\ UNCHANGED <<interactions, users, chats>>
             /\ messages[m].status = "deleted" => messages' = messages]_vars

\* a delete of a message that was deleted already has been answered with
\* success, and the row is deleted with the placeholder text
C19_Witness ==
    /\ res.op = "deleteMessage"
    /\ res.status = 200
    /\ res.repeated
    /\ res.user_message \in DOMAIN messages
    /\ messages[res.user_message].status = "deleted"
    /\ messages[res.user_message].message = DeletedText

(* C20: while a client reads a chat page after page from the cursor it     *)
(* started at, the items it has received are messages of the chat after    *)
(* the start, in strictly ascending order (so none twice), and every       *)
(* committed, not deleted message of the chat after the start and up to    *)
(* the client's present cursor is among them (no gap), whatever            *)
(* sendMessage calls ran in between.                                       *)
C20_CursorPagesComplete ==
    session # NoSession =>
        LET got == session.got
            passed == {m \in CommittedMessages :
                          /\ messages[m].chat_id = session.chat_id
                          /\ messages[m].status # "deleted"
                          /\ m > session.start
                          /\ m <= session.cursor}
        IN  /\ \A i \in DOMAIN got :
                  /\ got[i] > session.start
                  /\ got[i] <= session.cursor
                  /\ messages[got[i]].chat_id = session.chat_id
            /\ \A i, j \in DOMAIN got : i < j => got[i] < got[j]
            /\ \A m \in passed : \E i \in DOMAIN got : got[i] = m

\* the messages of the chat that are not deleted, in ascending order
Listed(chatId) ==
    Ascending(Len(messages),
              {m \in CommittedMessages :
                  /\ messages[m].chat_id = chatId
                  /\ messages[m].status # "deleted"})

(* C21: a listing of a chat by getChatMessages that succeeds returns no    *)
(* message with status deleted: the page is the requested slice of the     *)
(* chat's messages that are not deleted, in ascending order, so that the   *)
(* other messages stay listed.                                             *)
C21_ListingHidesDeleted ==
    [][\A u \in Humans, c \in DOMAIN chats, page \in PageNumbers,
          limit \in Limits :
          (getChatMessages(u, c, page, limit) /\ res'.status = 200) =>
              /\ \A i \in DOMAIN res'.page :
                    messages[res'.page[i]].status # "deleted"
              /\ LET offset == (page - 1) * limit
                 IN  res'.page = SubSeq(Listed(c), offset + 1,
                                        Min(offset + limit, Len(Listed(c))))
      ]_vars

PrevActions(a, b) ==
    IF InteractionRows(interactions, a, b) = {}
    THEN {"none"}
    ELSE {interactions[i].action : i \in InteractionRows(interactions, a, b)}

\* the like and reject counters the table gives for a like that finds p
LikeTable(p, c) ==
    IF p = "none"
    THEN [total_likes |-> c.total_likes + 1, total_rejects |-> c.total_rejects]
    ELSE IF p = "reject"
    THEN [total_likes |-> c.total_likes + 1,
          total_rejects |-> Max(c.total_rejects - 1, 0)]
    ELSE [total_likes |-> c.total_likes, total_rejects |-> c.total_rejects]

\* the like and reject counters the table gives for a reject that finds p
RejectTable(p, c) ==
    IF p = "none"
    THEN [total_likes |-> c.total_likes, total_rejects |-> c.total_rejects + 1]
    ELSE IF p \in {"like", "match"}
    THEN [total_likes |-> Max(c.total_likes - 1, 0),
          total_rejects |-> c.total_rejects + 1]
    ELSE [total_likes |-> c.total_likes, total_rejects |-> c.total_rejects]

LikesRejects(c) ==
    [total_likes |-> c.total_likes, total_rejects |-> c.total_rejects]

(* C23: a likeUser or rejectUser of a towards b changes a's total_likes    *)
(* and total_rejects by the transition table, read at an action that a row *)
(* of a towards b records (none when there is no row): none to like adds a *)
(* like; reject to like adds a like and takes a reject, not below 0; like   *)
(* or match to reject takes a like, not below 0, and adds a reject; none to *)
(* reject adds a reject; and nobody else's total_likes or total_rejects     *)
(* changes.                                                                 *)
C23_CounterTransitionTable ==
    [][\A a \in Humans : \A b \in Users \ {a} :
          /\ likeUser(a, b) =>
                /\ \E p \in PrevActions(a, b) :
                       LikesRejects(users'[a]) = LikeTable(p, users[a])
                /\ \A c \in Users \ {a} :
                       LikesRejects(users'[c]) = LikesRejects(users[c])
          /\ rejectUser(a, b) =>
                /\ \E p \in PrevActions(a, b) :
                       LikesRejects(users'[a]) = RejectTable(p, users[a])
                /\ \A c \in Users \ {a} :
                       LikesRejects(users'[c]) = LikesRejects(users[c])]_vars

\* a like was taken back: the actor's like is gone and the reject is counted
C23_Witness ==
    /\ res.op = "rejectUser"
    /\ res.status = 200
    /\ calls = 2
    /\ \E a \in Humans : \E b \in Users \ {a} :
          /\ users[a].total_likes = 0
          /\ users[a].total_rejects = 1
          /\ \E i \in InteractionRows(interactions, a, b) :
                interactions[i].action = "reject"
          /\ \E i \in InteractionRows(interactions, b, a) :
                interactions[i].action \in {"like", "reject"}

\* the rows in which u is the actor
OwnRows(u) ==
    {i \in DOMAIN interactions : interactions[i].user_id = u}

AtEdgeLock(t) == tx[t].pc \in {"lockForward", "lockReverse"}

\* t holds a lock on an edge row, or on the gap where the row would be
HoldsEdgeLock(t) == tx[t].rowLocks \cup tx[t].gapLocks # {}

(* C26: the two edge rows of a pair are locked in an order that does not    *)
(* depend on the actor, so no state is reached in which two interaction     *)
(* transactions each hold an edge lock and each wait, at a locking read of  *)
(* an edge, for a lock the other one holds.                                 *)
C26_EdgeLocksInOneOrder ==
    \A t \in TxIds : \A o \in TxIds \ {t} :
        ~(/\ AtEdgeLock(t) /\ AtEdgeLock(o)
          /\ HoldsEdgeLock(t) /\ HoldsEdgeLock(o)
          /\ BlockedBy(t, o)
          /\ BlockedBy(o, t))

UnreadOf(chatId, u) ==
    {m \in DOMAIN messages : /\ messages[m].chat_id = chatId
                             /\ messages[m].receiver_id = u
                             /\ ~messages[m].is_read}

\* no sendMessage is under way: none holds an open transaction and none
\* waits for a bot reply
Quiet == pending = {} /\ \A t \in TxIds : tx[t].pc = "idle"

(* C28: whenever no sendMessage is under way, however the earlier ones      *)
(* interleaved, each participant's unread counter on a chat row is the      *)
(* number of unread messages of that chat addressed to that participant.    *)
C28_UnreadCountsMessages ==
    Quiet =>
        \A c \in DOMAIN chats :
            /\ chats[c].unread_count_p1 =
                   Cardinality(UnreadOf(c, chats[c].participant_1_id))
            /\ chats[c].unread_count_p2 =
                   Cardinality(UnreadOf(c, chats[c].participant_2_id))

\* the rows of the chat; ids are handed out in the order of creation
MessagesOf(chatId) ==
    {m \in DOMAIN messages : messages[m].chat_id = chatId}

(* C29: whenever no sendMessage is under way, however the earlier ones and  *)
(* the bot replies interleaved, last_message_id of a chat row is the id of  *)
(* the message of the chat that was created last, and it is null only when  *)
(* the chat has no message.                                                 *)
C29_LastMessageIsNewest ==
    Quiet =>
        \A c \in DOMAIN chats :
            IF MessagesOf(c) = {}
            THEN chats[c].last_message_id = Null
            ELSE /\ chats[c].last_message_id \in MessagesOf(c)
                 /\ \A m \in MessagesOf(c) : m <= chats[c].last_message_id

\* the part of the store the interaction handlers write
StoreOf == [interactions |-> interactions, users |-> users, chats |-> chats]

\* the stores likeUser; rejectUser; likeUser of a towards b can end in when
\* the first likeUser left s1
LikeRejectLike(s1, a, b) ==
    UNION {AfterLikeUser(s2, a, b) : s2 \in AfterRejectUser(s1, a, b)}

====
